---- MODULE Spec2Model ----
(***************************************************************************)
(* A model of idb-store: the promise bridge (promisify), the Store Handle  *)
(* (class IDBStore) and the Database Handle (class IDBDatabase) of the     *)
(* latest iteration of the library (src/unnamed/part_000), running against *)
(* the IndexedDB engine.  The engine is the environment: it executes the   *)
(* requests of a transaction in order, commits a transaction once it has   *)
(* no request left, rolls a transaction back when it aborts, and delivers  *)
(* the success / error / complete / abort events the code listens to.      *)
(***************************************************************************)
EXTENDS Integers, Sequences, FiniteSets, TLC

(***************************************************************************)
(* Bounds of the model.                                                    *)
(***************************************************************************)
MaxKey == 2
MaxBatch == 2
MaxVersion == 2
MaxInflight == 1
MaxSignals == 3
MaxConcurrent == 2

(***************************************************************************)
(* The declared stores, in the order Object.keys yields them, and the      *)
(* values the application stores.  A value is a record with an id (the     *)
(* property the key path "id" names) and an email (the property the index  *)
(* "byEmail" is built on); 0 stands for a property the value does not have.*)
(***************************************************************************)
StoreOrder == <<"users", "logs">>
StoreNames == {StoreOrder[i] : i \in 1..Len(StoreOrder)}

NoKey == 0
NoPath == ""
Undefined == [undefined |-> TRUE]
NoRange == [unbounded |-> TRUE]

KeysOf(s) == IF s = "users" THEN 1..MaxKey ELSE {1}
ValuesOf(s) ==
  IF s = "users"
  THEN {[id |-> 1, email |-> 2], [id |-> 2, email |-> 1],
        [id |-> 2, email |-> 2], [id |-> 0, email |-> 0]}
  ELSE {[id |-> 1, email |-> 0]}
IndexNames == {"byEmail"}
IndexKeys == 1..2

(***************************************************************************)
(* The engine's data: an object store is its key path, its indexes and its *)
(* records; functions whose domain is the set of names / keys present.     *)
(***************************************************************************)
NoIndexes == [n \in {} |-> [keyPath |-> NoPath, unique |-> FALSE]]
NoRecords == [k \in {} |-> Undefined]
NoStores == [s \in {} |-> [keyPath |-> NoPath, indexes |-> NoIndexes, records |-> NoRecords]]

ValidKeyPath(path) == path \in {"id", "email"}

\* The key a key path finds in a value; NoKey when the value has no such property.
KeyAt(value, path) ==
  IF path = "id" THEN value.id ELSE IF path = "email" THEN value.email ELSE NoKey

Lookup(records, key) == IF key \in DOMAIN records THEN records[key] ELSE Undefined

PutRecord(records, key, value) ==
  [k \in DOMAIN records \cup {key} |-> IF k = key THEN value ELSE records[k]]

DeleteRecord(records, key) == [k \in DOMAIN records \ {key} |-> records[k]]

\* A unique index refuses two records with the same index key.
ViolatesUnique(store, key, value) ==
  \E n \in DOMAIN store.indexes :
    /\ store.indexes[n].unique
    /\ KeyAt(value, store.indexes[n].keyPath) # NoKey
    /\ \E k \in DOMAIN store.records \ {key} :
         KeyAt(store.records[k], store.indexes[n].keyPath)
           = KeyAt(value, store.indexes[n].keyPath)

\* Building a unique index over records that already share an index key fails.
IndexBuildFails(store) ==
  \E k \in DOMAIN store.records : ViolatesUnique(store, k, store.records[k])

(***************************************************************************)
(* IDBStore.upgrade, run for one store inside the upgrade transaction.     *)
(* The result is the stores of the database and whether a call threw.      *)
(***************************************************************************)
createObjectStoreOnly(stores, name) ==
  [s \in {name} |-> [keyPath |-> NoPath, indexes |-> NoIndexes, records |-> NoRecords]]

createObjectStore(stores, name) ==
  [s \in DOMAIN stores \cup {name} |->
     IF s = name
     THEN [keyPath |-> NoPath, indexes |-> NoIndexes, records |-> NoRecords]
     ELSE stores[s]]

createIndex(store, index) ==
  [store EXCEPT !.indexes =
     [n \in DOMAIN store.indexes \cup {index.name} |->
        IF n = index.name
        THEN [keyPath |-> index.keyPath, unique |-> index.unique]
        ELSE store.indexes[n]]]

RECURSIVE upgradeIndexes(_, _, _)
upgradeIndexes(store, indexes, i) ==
  IF i > Len(indexes) THEN [store |-> store, threw |-> FALSE]
  ELSE IF indexes[i].name \in DOMAIN store.indexes
       THEN upgradeIndexes(store, indexes, i + 1)
       ELSE IF ~ValidKeyPath(indexes[i].keyPath)
            THEN [store |-> store, threw |-> TRUE]
            ELSE upgradeIndexes(createIndex(store, indexes[i]), indexes, i + 1)

upgradeAlwaysCreates(stores, name, opts) ==
  IF name \in DOMAIN stores THEN [stores |-> stores, threw |-> TRUE]
  ELSE LET done == upgradeIndexes(createObjectStore(stores, name)[name], opts.indexes, 1)
       IN  [stores |-> [createObjectStore(stores, name) EXCEPT ![name] = done.store],
            threw |-> done.threw]

upgrade(stores, name, opts) ==
  LET have == IF name \notin DOMAIN stores
              THEN createObjectStore(stores, name)
              ELSE stores
      done == upgradeIndexes(have[name], opts.indexes, 1)
  IN  [stores |-> [have EXCEPT ![name] = done.store], threw |-> done.threw]

upgradeFirst(stores, opts, i) == upgrade(stores, StoreOrder[1], opts[StoreOrder[1]])

\* iterate(stores, (_, store) => store.upgrade(request)): stops at the first throw.
RECURSIVE upgradeAll(_, _, _)
upgradeAll(stores, opts, i) ==
  IF i > Len(StoreOrder) THEN [stores |-> stores, threw |-> FALSE]
  ELSE LET one == upgrade(stores, StoreOrder[i], opts[StoreOrder[i]])
       IN  IF one.threw THEN one ELSE upgradeAll(one.stores, opts, i + 1)

(***************************************************************************)
(* State.                                                                  *)
(***************************************************************************)
VARIABLES
  options,      \* IDBStore.options of each declared store (immutable)
  version,      \* IDBDatabase.version: the version init() asks for
  phase,        \* where init() and its open request stand
  initPromise,  \* the promise init() returned
  registered,   \* per store: whether register() has bound this.store
  dbVersion,    \* the engine: the stored version of the database
  dbStores,     \* the engine: the object stores of the database
  upgradeSnap,  \* the engine: the database as the upgrade transaction found it
  upgradeThrew, \* whether the upgradeneeded handler threw
  otherConn,    \* the engine: another connection to the database is open
  calls,        \* per slot: a Store Handle call in flight, with its transaction
  txOrder,      \* the engine: the slots of the live transactions, oldest first
  kv,           \* per store: the key/value map the resolved set/del/clear describe
  mapOnly       \* per store: only get/set/del/clear and walks were called on it

vars == <<options, version, phase, initPromise, registered, dbVersion, dbStores,
          upgradeSnap, upgradeThrew, otherConn, calls, txOrder, kv, mapOnly>>

lifecycle == <<options, version, phase, initPromise, registered, dbVersion,
               upgradeSnap, upgradeThrew, otherConn>>

NoSnap == [version |-> 0, stores |-> NoStores]

\* The calls in flight are held in slots; a specification fixes how many.
Slots == DOMAIN calls
Idle == [op |-> "idle"]

LegacyUsers(records) ==
  [s \in {"users"} |-> [keyPath |-> "id", indexes |-> NoIndexes, records |-> records]]

TwoUsers ==
  [k \in 1..2 |-> IF k = 1 THEN [id |-> 1, email |-> 2] ELSE [id |-> 2, email |-> 2]]

\* The databases init() may find: none, one an earlier release left (its users
\* store created with the key path), or one a later release already upgraded.
InitialDatabases ==
  {[version |-> 0, stores |-> NoStores],
   [version |-> 1, stores |-> LegacyUsers(NoRecords)],
   [version |-> 1, stores |-> LegacyUsers(TwoUsers)],
   [version |-> MaxVersion + 1, stores |-> LegacyUsers(NoRecords)]}

Declared(unique, logIndexes) ==
  [s \in StoreNames |->
     IF s = "users"
     THEN [keyPath |-> "id",
           indexes |-> <<[name |-> "byEmail", keyPath |-> "email", unique |-> unique]>>]
     ELSE [keyPath |-> NoPath, indexes |-> logIndexes]]

\* The stores an application declares: users, keyed by id and indexed by email,
\* and logs; one application declares an index whose key path is not valid.
DeclaredOptions ==
  {Declared(FALSE, <<>>), Declared(TRUE, <<>>),
   Declared(FALSE, <<[name |-> "byDate", keyPath |-> "a b", unique |-> FALSE]>>)}

Init ==
  /\ options \in DeclaredOptions
  /\ version \in 1..MaxVersion
  /\ phase = "uninitialized"
  /\ initPromise = "none"
  /\ registered = [s \in StoreNames |-> FALSE]
  /\ \E d \in InitialDatabases : dbVersion = d.version /\ dbStores = d.stores
  /\ upgradeSnap = NoSnap
  /\ upgradeThrew = FALSE
  /\ otherConn \in {FALSE, 1 <= dbVersion /\ dbVersion < version}
  /\ calls = [c \in 1..MaxInflight |-> Idle]
  /\ txOrder = <<>>
  /\ kv = [s \in StoreNames |-> IF s \in DOMAIN dbStores THEN dbStores[s].records
                                                        ELSE NoRecords]
  /\ mapOnly = [s \in StoreNames |-> TRUE]

(***************************************************************************)
(* IDBDatabase.init and the open request.                                  *)
(***************************************************************************)
\* init() up to its await: indexedDB.open(dbName, version), the upgradeneeded
\* handler and promisify's handlers are set.
InitCall ==
  /\ phase = "uninitialized"
  /\ phase' = "opening"
  /\ initPromise' = "pending"
  /\ UNCHANGED <<options, version, registered, dbVersion, dbStores, upgradeSnap,
                 upgradeThrew, otherConn,
                 calls, txOrder, kv, mapOnly>>

\* The engine fires "blocked" at the open request: the code listens to no such
\* event, and the request goes on waiting for the other connection to close.
OpenBlocked ==
  /\ phase = "opening"
  /\ otherConn
  /\ version > dbVersion
  /\ phase' = "blocked"
  /\ UNCHANGED <<options, version, initPromise, registered, dbVersion, dbStores,
                 upgradeSnap, upgradeThrew, otherConn,
                 calls, txOrder, kv, mapOnly>>

OtherClose ==
  /\ otherConn
  /\ otherConn' = FALSE
  /\ UNCHANGED <<options, version, phase, initPromise, registered, dbVersion,
                 dbStores, upgradeSnap, upgradeThrew,
                 calls, txOrder, kv, mapOnly>>

\* request.onupgradeneeded: every declared store's upgrade(), in order, inside
\* the upgrade transaction.
UpgradeNeeded ==
  /\ phase \in {"opening", "blocked"}
  /\ ~otherConn
  /\ version > dbVersion
  /\ LET done == upgradeAll(dbStores, options, 1)
     IN  /\ dbStores' = done.stores
         /\ upgradeThrew' = done.threw
  /\ upgradeSnap' = [version |-> dbVersion, stores |-> dbStores]
  /\ dbVersion' = version
  /\ phase' = "upgrading"
  /\ UNCHANGED <<options, version, initPromise, registered, otherConn,
                 calls, txOrder, kv, mapOnly>>

UpgradeNeverAborts == FALSE

UpgradeMustAbort ==
  upgradeThrew \/ \E s \in DOMAIN dbStores : IndexBuildFails(dbStores[s])

\* The upgrade transaction aborts (the handler threw, an index could not be
\* built, or the engine gave up): the database is what it was, the open request
\* fires error, promisify rejects and init() rejects.
UpgradeAbort ==
  /\ phase = "upgrading"
  /\ dbVersion' = upgradeSnap.version
  /\ dbStores' = upgradeSnap.stores
  /\ upgradeSnap' = NoSnap
  /\ phase' = "failed"
  /\ initPromise' = "rejected"
  /\ UNCHANGED <<options, version, registered, upgradeThrew, otherConn,
                 calls, txOrder, kv, mapOnly>>

\* The open request fires success (after the upgrade transaction completed, or
\* with no upgrade when the stored version is the one asked for): promisify
\* resolves the connection promise.
OpenSuccess ==
  /\ \/ phase = "opening" /\ version = dbVersion
     \/ phase = "upgrading" /\ ~UpgradeMustAbort
  /\ phase' = "opened"
  /\ upgradeSnap' = NoSnap
  /\ UNCHANGED <<options, version, initPromise, registered, dbVersion, dbStores,
                 upgradeThrew, otherConn,
                 calls, txOrder, kv, mapOnly>>

\* The open request fires error (the stored version is higher than the one asked
\* for, or the engine fails): promisify rejects and init() rejects.
OpenError ==
  /\ phase = "opening"
  /\ phase' = "failed"
  /\ initPromise' = "rejected"
  /\ UNCHANGED <<options, version, registered, dbVersion, dbStores, upgradeSnap,
                 upgradeThrew, otherConn,
                 calls, txOrder, kv, mapOnly>>

\* init() after its await: iterate(stores, (_, store) => store.register(db)).
register(reg, name) == [reg EXCEPT ![name] = TRUE]

registerFirst(reg, i) == register(reg, StoreOrder[1])

RECURSIVE registerAll(_, _)
registerAll(reg, i) ==
  IF i > Len(StoreOrder) THEN reg ELSE registerAll(register(reg, StoreOrder[i]), i + 1)

InitResume ==
  /\ phase = "opened"
  /\ registered' = registerAll(registered, 1)
  /\ initPromise' = "resolved"
  /\ phase' = "open"
  /\ UNCHANGED <<options, version, dbVersion, dbStores, upgradeSnap, upgradeThrew,
                 otherConn,
                 calls, txOrder, kv, mapOnly>>

(***************************************************************************)
(* The calls an application makes on a Store Handle.                       *)
(***************************************************************************)
RECURSIVE SeqsUpTo(_, _)
SeqsUpTo(S, n) ==
  IF n = 0 THEN {<<>>}
  ELSE LET shorter == SeqsUpTo(S, n - 1)
       IN  shorter \cup {Append(q, x) : q \in {t \in shorter : Len(t) = n - 1}, x \in S}

RangesOf(s) ==
  IF s = "users"
  THEN {NoRange}
         \cup {[lower |-> 1, upper |-> MaxKey, lowerOpen |-> lo, upperOpen |-> uo] :
                 lo \in BOOLEAN, uo \in BOOLEAN}
  ELSE {NoRange}

NoArgs ==
  [key |-> NoKey, value |-> Undefined, keys |-> <<>>, values |-> <<>>,
   index |-> "", indexValue |-> NoKey, range |-> NoRange, visitor |-> "returns"]

\* The visitor an application hands to cursor / cursorIndex returns, or throws
\* on the record it is given.
Visitors == {"returns", "throws"}

ArgsOf(s) ==
  [op : {"get"}, args : {[NoArgs EXCEPT !.key = k] : k \in KeysOf(s)}]
  \cup [op : {"getByIndex"},
        args : {[NoArgs EXCEPT !.index = n, !.indexValue = e] :
                  n \in IndexNames, e \in IndexKeys}]
  \cup [op : {"set"},
        args : {[NoArgs EXCEPT !.value = v, !.key = k] :
                  v \in ValuesOf(s), k \in KeysOf(s) \cup {NoKey}}]
  \cup [op : {"getMany"},
        args : {[NoArgs EXCEPT !.keys = ks] : ks \in SeqsUpTo(KeysOf(s), MaxBatch)}]
  \cup [op : {"setMany"},
        args : {[NoArgs EXCEPT !.values = vs] : vs \in SeqsUpTo(ValuesOf(s), MaxBatch)}]
  \cup [op : {"update"}, args : {[NoArgs EXCEPT !.value = v] : v \in ValuesOf(s)}]
  \cup [op : {"del"}, args : {[NoArgs EXCEPT !.key = k] : k \in KeysOf(s)}]
  \cup [op : {"clear"}, args : {NoArgs}]
  \cup [op : {"cursor"},
        args : {[NoArgs EXCEPT !.range = r, !.visitor = v] :
                  r \in RangesOf(s), v \in Visitors}]
  \cup [op : {"getAll"},
        args : {[NoArgs EXCEPT !.range = r] : r \in RangesOf(s)}]
  \cup [op : {"cursorIndex"},
        args : {[NoArgs EXCEPT !.index = n, !.range = r, !.visitor = v] :
                  n \in IndexNames, r \in RangesOf(s), v \in Visitors}]
  \cup [op : {"getAllByIndex"},
        args : {[NoArgs EXCEPT !.index = n, !.range = r] :
                  n \in IndexNames, r \in RangesOf(s)}]

IndexOps == {"getByIndex", "cursorIndex", "getAllByIndex"}
WriteOps == {"set", "setMany", "update", "del", "clear"}
WalkOps == {"cursor", "cursorIndex", "getAll", "getAllByIndex"}
AsyncOps == {"getAll", "getAllByIndex"}

\* The access mode each method opens its transaction in.
ModeOf(op) == IF op \in WriteOps THEN "readwrite" ELSE "readonly"

BridgeOfRequests(op) ==
  IF op \in {"get", "getByIndex"} \cup WriteOps THEN "request"
  ELSE IF op = "getMany" THEN "all"
  ELSE "walk"

\* What settles the promise a method returns: promisify(request) of its one
\* request, Promise.all of its requests, promisify(store.transaction), or the
\* promise the cursor walk builds.
BridgeOf(op) ==
  IF op \in {"get", "getByIndex"} THEN "request"
  ELSE IF op = "getMany" THEN "all"
  ELSE IF op \in WriteOps THEN "transaction"
  ELSE "walk"

NoError == [name |-> "", label |-> "", store |-> ""]
EngineError(name) == [name |-> name, label |-> "", store |-> ""]

\* The default this.store / this.storeIndex: throw new Error(`IDBStore ${name} ...`).
NotInitializedUnnamed(op, name) ==
  [name |-> "NotInitialized",
   label |-> IF op \in IndexOps THEN "IDBStoreIndex" ELSE "IDBStore",
   store |-> ""]

NotInitialized(op, name) ==
  [name |-> "NotInitialized",
   label |-> IF op \in IndexOps THEN "IDBStoreIndex" ELSE "IDBStore",
   store |-> name]

\* A method that fails before it returns throws; an async method returns a
\* rejected promise instead.
Raise(op) == IF op \in AsyncOps THEN "rejected" ELSE "thrown"

NoSnapshot == [taken |-> FALSE]

\* The iterations of the store class the repository holds, oldest first; the
\* Store Handle and the Database Handle modelled are those of the latest.
Iterations == <<"src/unnamed/part_001", "src/src/index.ts", "src/unnamed/part_000">>
Latest == Iterations[Len(Iterations)]

NewCall(op, name, args) ==
  [op |-> op, store |-> name, args |-> args, mode |-> ModeOf(op),
   bridge |-> BridgeOf(op), promise |-> "pending", result |-> Undefined,
   err |-> NoError, tx |-> "none", reqs |-> <<>>, results |-> <<>>,
   visited |-> <<>>, snapshot |-> NoSnapshot, iteration |-> Latest]

Failed(call, error) == [call EXCEPT !.promise = Raise(call.op), !.err = error]

\* store.put(value, key) refuses, before it makes a request, a key given to a
\* store with a key path, a value without the key its store's key path names, and
\* a missing key for a store without key path.
PutThrows(store, value, key) ==
  IF store.keyPath # NoPath
  THEN key # NoKey \/ KeyAt(value, store.keyPath) = NoKey
  ELSE key = NoKey

PutKey(store, value, key) ==
  IF store.keyPath # NoPath THEN KeyAt(value, store.keyPath) ELSE key

PutRequestAtId(store, value, key) ==
  [kind |-> "put", key |-> KeyAt(value, "id"), value |-> value,
   pos |-> <<0, 0>>, range |-> NoRange]

PutRequest(store, value, key) ==
  [kind |-> "put", key |-> PutKey(store, value, key), value |-> value,
   pos |-> <<0, 0>>, range |-> NoRange]

GetRequest(kind, key) ==
  [kind |-> kind, key |-> key, value |-> Undefined, pos |-> <<0, 0>>, range |-> NoRange]

OpenCursorNoRange(args) == NoRange

\* store.openCursor(keyRangeValue) / index.openCursor(keyRangeValue).
OpenCursorRange(args) == args.range

CursorRequest(kind, pos, range) ==
  [kind |-> kind, key |-> NoKey, value |-> Undefined, pos |-> pos, range |-> range]

\* values.forEach(entry => store.put(entry)): the puts made before the first
\* one that throws.
RECURSIVE putMany(_, _, _)
putMany(store, values, i) ==
  IF i > Len(values) THEN [reqs |-> <<>>, threw |-> FALSE]
  ELSE IF PutThrows(store, values[i], NoKey) THEN [reqs |-> <<>>, threw |-> TRUE]
  ELSE LET rest == putMany(store, values, i + 1)
       IN  [reqs |-> <<PutRequest(store, values[i], NoKey)>> \o rest.reqs,
            threw |-> rest.threw]

\* The callback each method hands to this.store, run on the object store of
\* the transaction just opened: the requests it makes, and whether it threw.
Issue(op, args, store) ==
  CASE op = "get" ->
         [reqs |-> <<GetRequest("get", args.key)>>, threw |-> FALSE]
    [] op = "getByIndex" ->
         [reqs |-> <<GetRequest("indexGet", args.indexValue)>>, threw |-> FALSE]
    [] op = "set" ->
         IF PutThrows(store, args.value, args.key)
         THEN [reqs |-> <<>>, threw |-> TRUE]
         ELSE [reqs |-> <<PutRequest(store, args.value, args.key)>>, threw |-> FALSE]
    [] op = "getMany" ->
         [reqs |-> [i \in 1..Len(args.keys) |-> GetRequest("get", args.keys[i])],
          threw |-> FALSE]
    [] op = "setMany" -> putMany(store, args.values, 1)
    [] op = "update" ->
         IF PutThrows(store, args.value, NoKey)
         THEN [reqs |-> <<>>, threw |-> TRUE]
         ELSE [reqs |-> <<PutRequest(store, args.value, NoKey)>>, threw |-> FALSE]
    [] op = "del" ->
         [reqs |-> <<GetRequest("delete", args.key)>>, threw |-> FALSE]
    [] op = "clear" ->
         [reqs |-> <<GetRequest("clear", NoKey)>>, threw |-> FALSE]
    [] op \in {"cursor", "getAll"} ->
         [reqs |-> <<CursorRequest("cursor", <<0, 0>>, OpenCursorRange(args))>>,
          threw |-> FALSE]
    [] op \in {"cursorIndex", "getAllByIndex"} ->
         [reqs |-> <<CursorRequest("indexCursor", <<0, 0>>, OpenCursorRange(args))>>,
          threw |-> FALSE]

\* The registered this.store / this.storeIndex and the method's callback:
\* db.transaction(name, mode).objectStore(name), s.index(indexName), the requests.
Open(op, name, args, stores) ==
  LET call == NewCall(op, name, args) IN
  IF name \notin DOMAIN stores
  THEN Failed(call, EngineError("NotFoundError"))
  ELSE IF op \in IndexOps /\ args.index \notin DOMAIN stores[name].indexes
  THEN [Failed(call, EngineError("NotFoundError")) EXCEPT !.tx = "active"]
  ELSE LET issued == Issue(op, args, stores[name])
           began == [call EXCEPT !.tx = "active", !.reqs = issued.reqs,
                                 !.results = [i \in 1..Len(issued.reqs) |-> Undefined]]
       IN  IF issued.threw THEN Failed(began, EngineError("DataError"))
           ELSE IF op = "getMany" /\ Len(issued.reqs) = 0
           THEN [began EXCEPT !.promise = "resolved", !.result = <<>>]
           ELSE began

\* A method called on a Store Handle, up to the point it returns.
Call(c, name, op, args) ==
  /\ phase # "opened"
  /\ calls[c] = Idle
  /\ LET call == IF registered[name] THEN Open(op, name, args, dbStores)
                 ELSE Failed(NewCall(op, name, NoArgs), NotInitialized(op, name))
     IN  /\ calls' = [calls EXCEPT ![c] = call]
         /\ txOrder' = IF call.tx = "active" THEN Append(txOrder, c) ELSE txOrder
         /\ mapOnly' = IF Len(call.reqs) > 0 /\ op \in {"setMany", "update"}
                       THEN [mapOnly EXCEPT ![name] = FALSE] ELSE mapOnly
  /\ UNCHANGED <<lifecycle, dbStores, kv>>

\* The caller has seen the outcome and the transaction is over.
Forget(c) ==
  /\ calls[c] # Idle
  /\ calls[c].tx # "active"
  /\ calls' = [calls EXCEPT ![c] = Idle]
  /\ UNCHANGED <<lifecycle, dbStores, txOrder, kv, mapOnly>>


(***************************************************************************)
(* The engine at work on a transaction.                                    *)
(***************************************************************************)
\* Read-write transactions on a store run one at a time, in the order they
\* were created; read-only ones wait for the read-write ones before them.
Conflict(a, b) ==
  a.store = b.store /\ (a.mode = "readwrite" \/ b.mode = "readwrite")

PlaceOf(c) == CHOOSE i \in 1..Len(txOrder) : txOrder[i] = c

CanRunAtOnce(c) == calls[c] # Idle /\ calls[c].tx = "active"

CanRun(c) ==
  /\ calls[c] # Idle
  /\ calls[c].tx = "active"
  /\ \A i \in 1..(PlaceOf(c) - 1) : ~Conflict(calls[txOrder[i]], calls[c])

Without(order, c) == SelectSeq(order, LAMBDA x : x # c)

\* The entries a cursor walks: <<sort key, primary key>>, the sort key being the
\* primary key, or the index key of the records that have one.
Entries(store, call) ==
  IF call.op \in IndexOps
  THEN {<<KeyAt(store.records[k], store.indexes[call.args.index].keyPath), k>> :
          k \in {x \in DOMAIN store.records :
                   KeyAt(store.records[x], store.indexes[call.args.index].keyPath) # NoKey}}
  ELSE {<<k, k>> : k \in DOMAIN store.records}

InRange(key, range) ==
  IF range = NoRange THEN TRUE
  ELSE /\ IF range.lowerOpen THEN key > range.lower ELSE key >= range.lower
       /\ IF range.upperOpen THEN key < range.upper ELSE key <= range.upper

Before(a, b) == a[1] < b[1] \/ (a[1] = b[1] /\ a[2] < b[2])

\* The entries still ahead of a cursor at `pos`, and the first of them.
Ahead(entries, pos, range) ==
  {e \in entries : Before(pos, e) /\ InRange(e[1], range)}

First(entries) == CHOOSE e \in entries : \A f \in entries : e = f \/ Before(e, f)

\* promisify's and the cursor promise's settle functions: a promise settles once.
Resolve(call, value) ==
  IF call.promise = "pending"
  THEN [call EXCEPT !.promise = "resolved", !.result = value] ELSE call

RejectAgain(call, error) == [call EXCEPT !.promise = "rejected", !.err = error]

Reject(call, error) ==
  IF call.promise = "pending"
  THEN [call EXCEPT !.promise = "rejected", !.err = error] ELSE call

\* promisify: complete and success resolve with the handle's result, abort and
\* error reject with the handle's error.
promisify(call, signal, result, error) ==
  IF signal \in {"complete", "success"} THEN Resolve(call, result)
  ELSE Reject(call, error)

RECURSIVE ValuesOfVisited(_)
ValuesOfVisited(visited) ==
  IF visited = <<>> THEN <<>>
  ELSE <<Head(visited).value>> \o ValuesOfVisited(Tail(visited))

\* The value a finished walk's promise resolves to: nothing for cursor and
\* cursorIndex, the items pushed by the visitor for getAll and getAllByIndex
\* (cursor.value in the latest iteration; the cursor itself before, which is
\* one object: it stands at the record last visited while the walk goes on,
\* and holds no value once the walk is over).
WalkResult(call) ==
  IF call.op \notin AsyncOps THEN Undefined
  ELSE IF call.iteration = Latest THEN ValuesOfVisited(call.visited)
  ELSE [i \in 1..Len(call.visited) |->
          IF call.reqs = <<>> THEN Undefined ELSE call.visited[Len(call.visited)]]

\* The first write of a transaction keeps what it will restore on abort.
Snapshot(call, store) ==
  IF call.snapshot.taken THEN call.snapshot
  ELSE [taken |-> TRUE, records |-> store.records]

\* What a request does to the records of its store.
Written(store, r) ==
  CASE r.kind = "put" -> PutRecord(store.records, r.key, r.value)
    [] r.kind = "delete" -> DeleteRecord(store.records, r.key)
    [] r.kind = "clear" -> NoRecords
    [] OTHER -> store.records

\* What a get request reads.
ReadValue(store, call, r) ==
  IF r.kind = "get" THEN Lookup(store.records, r.key)
  ELSE LET hits == {e \in Entries(store, call) : e[1] = r.key}
       IN  IF hits = {} THEN Undefined ELSE store.records[First(hits)[2]]

\* Promise.all(keys.map(key => promisify(store.get(key)))): the value of the
\* i-th request is the i-th element of the result.
PromiseAllReversed(results, i, value) ==
  [results EXCEPT ![Len(results) + 1 - i] = value]

PromiseAll(results, i, value) == [results EXCEPT ![i] = value]

\* request.onsuccess as the call's bridge set it.
\* The onsuccess handler of a cursor request: without a current record the
\* walk is over (and the latest iteration resolves its promise); with one, the
\* visitor is called and then cursor.continue().  A visitor that throws leaves
\* the handler before continue(): the engine aborts the transaction, which has
\* no request left to tell.
VisitorThrows(call, store, r) ==
  /\ r.kind \in {"cursor", "indexCursor"}
  /\ call.args.visitor = "throws"
  /\ Ahead(Entries(store, call), r.pos, r.range) # {}

CursorStep(call, store, r) ==
  LET rest == [call EXCEPT !.reqs = Tail(call.reqs)]
      ahead == Ahead(Entries(store, call), r.pos, r.range)
  IN  IF ahead = {}
      THEN IF call.bridge = "walk" THEN Resolve(rest, WalkResult(rest))
           ELSE [rest EXCEPT !.result = WalkResult(rest)]
      ELSE LET e == First(ahead)
               seen == [rest EXCEPT !.visited =
                          Append(@, [key |-> e[2], value |-> store.records[e[2]]])]
               next == [seen EXCEPT !.reqs = <<CursorRequest(r.kind, e, r.range)>>]
           IN  IF VisitorThrows(call, store, r) THEN seen
               ELSE [next EXCEPT !.result = WalkResult(next)]

OnSuccess(call, store, r) ==
  LET rest == [call EXCEPT !.reqs = Tail(call.reqs)] IN
  CASE r.kind \in {"cursor", "indexCursor"} -> CursorStep(call, store, r)
    [] call.bridge = "request" ->
         promisify(rest, "success", ReadValue(store, call, r), NoError)
    [] call.bridge = "all" ->
         LET i == Len(call.results) - Len(call.reqs) + 1
             got == [rest EXCEPT !.results =
                       PromiseAll(@, i, ReadValue(store, call, r))]
         IN  IF Len(got.reqs) = 0 THEN Resolve(got, got.results) ELSE got
    [] OTHER -> rest

MustFail(store, r) == r.kind = "put" /\ ViolatesUnique(store, r.key, r.value)

\* tx.error while the error event of a failed request is dispatched: the
\* transaction takes the request's error only when it aborts, after the event.
TxErrorDuringEvent == EngineError("null")

OnErrorUnheard(call, error) == call

\* request.onerror / tx.onerror (the error event bubbles) as the bridge set them.
OnError(call, error) ==
  CASE call.bridge = "request" -> promisify(call, "error", Undefined, error)
    [] call.bridge = "all" -> Reject(call, error)
    [] call.bridge = "transaction" ->
         promisify(call, "error", Undefined, TxErrorDuringEvent)
    [] call.bridge = "walk" -> Reject(call, EngineError("Event"))
    [] OTHER -> call

OnAbortUnheard(call, error) == call

\* tx.onabort, and the error events the requests still pending get.
OnAbort(call, error) ==
  CASE call.bridge = "request" ->
         IF Len(call.reqs) > 0
         THEN promisify(call, "error", Undefined, EngineError("AbortError")) ELSE call
    [] call.bridge = "all" ->
         IF Len(call.reqs) > 0 THEN Reject(call, EngineError("AbortError")) ELSE call
    [] call.bridge = "transaction" -> promisify(call, "abort", Undefined, error)
    [] call.bridge = "walk" ->
         IF Len(call.reqs) > 0 THEN Reject(call, EngineError("Event")) ELSE call
    [] OTHER -> call

Aborted(call, error) ==
  [OnAbort(call, error) EXCEPT !.tx = "aborted", !.reqs = <<>>]

RolledBack(stores, call) ==
  IF call.snapshot.taken
  THEN [stores EXCEPT ![call.store].records = call.snapshot.records] ELSE stores

\* The engine carries out the oldest request of a transaction and fires success;
\* it aborts the transaction when the handler throws.
ReqSuccess(c) ==
  /\ CanRun(c)
  /\ Len(calls[c].reqs) > 0
  /\ LET call == calls[c]
         r == Head(call.reqs)
         store == dbStores[call.store]
         kept == IF r.kind \in {"put", "delete", "clear"}
                 THEN [call EXCEPT !.snapshot = Snapshot(call, store)] ELSE call
     IN  /\ ~MustFail(store, r)
         /\ dbStores' = [dbStores EXCEPT ![call.store].records = Written(store, r)]
         /\ calls' = [calls EXCEPT ![c] =
                       IF VisitorThrows(call, store, r)
                       THEN Aborted(OnSuccess(kept, store, r), EngineError("AbortError"))
                       ELSE OnSuccess(kept, store, r)]
         /\ txOrder' = IF VisitorThrows(call, store, r)
                        THEN Without(txOrder, c) ELSE txOrder
  /\ UNCHANGED <<lifecycle, kv, mapOnly>>

\* The oldest request of a transaction fails (a unique index refuses the put,
\* or the engine fails): error fires at the request, and the transaction aborts.
ReqError(c) ==
  /\ CanRun(c)
  /\ Len(calls[c].reqs) > 0
  /\ LET call == calls[c]
         r == Head(call.reqs)
         error == IF MustFail(dbStores[call.store], r)
                  THEN EngineError("ConstraintError") ELSE EngineError("UnknownError")
         told == OnError([call EXCEPT !.reqs = Tail(call.reqs)], error)
     IN  /\ calls' = [calls EXCEPT ![c] = Aborted(told, error)]
         /\ dbStores' = RolledBack(dbStores, call)
  /\ txOrder' = Without(txOrder, c)
  /\ UNCHANGED <<lifecycle, kv, mapOnly>>

\* The engine aborts a live transaction on its own.
TxAbort(c) ==
  /\ CanRun(c)
  /\ calls' = [calls EXCEPT ![c] = Aborted(calls[c], EngineError("AbortError"))]
  /\ dbStores' = RolledBack(dbStores, calls[c])
  /\ txOrder' = Without(txOrder, c)
  /\ UNCHANGED <<lifecycle, kv, mapOnly>>

\* The key/value map after a resolved write.
KvApply(map, call, store) ==
  CASE call.op = "set" ->
         PutRecord(map, PutKey(store, call.args.value, call.args.key), call.args.value)
    [] call.op = "del" -> DeleteRecord(map, call.args.key)
    [] call.op = "clear" -> NoRecords
    [] OTHER -> map

\* tx.oncomplete as promisify(store.transaction) set it.
OnComplete(call) ==
  IF call.bridge = "transaction"
  THEN promisify(call, "complete", WalkResult(call), NoError) ELSE call

\* A transaction with no request left commits and fires complete.
TxComplete(c) ==
  /\ CanRun(c)
  /\ Len(calls[c].reqs) = 0
  /\ LET done == [OnComplete(calls[c]) EXCEPT !.tx = "complete"]
     IN  /\ calls' = [calls EXCEPT ![c] = done]
         /\ kv' = IF calls[c].promise = "pending" /\ done.promise = "resolved"
                  THEN [kv EXCEPT ![done.store] =
                          KvApply(@, done, dbStores[done.store])]
                  ELSE kv
  /\ txOrder' = Without(txOrder, c)
  /\ UNCHANGED <<lifecycle, dbStores, mapOnly>>

\* The page is loaded again: new handles, the same declared stores, the same
\* version or the next one.
Reload ==
  /\ phase \in {"open", "failed"}
  /\ \A c \in Slots : calls[c] = Idle
  /\ phase' = "uninitialized"
  /\ initPromise' = "none"
  /\ registered' = [s \in StoreNames |-> FALSE]
  /\ version' \in {version, version + 1} \cap 1..MaxVersion
  /\ UNCHANGED <<options, dbVersion, dbStores, upgradeSnap, upgradeThrew, otherConn,
                 calls, txOrder, kv, mapOnly>>

Next ==
  \/ InitCall
  \/ OpenBlocked
  \/ OtherClose
  \/ UpgradeNeeded
  \/ UpgradeAbort
  \/ OpenSuccess
  \/ OpenError
  \/ InitResume
  \/ \E c \in Slots, name \in StoreNames : \E a \in ArgsOf(name) : Call(c, name, a.op, a.args)
  \/ \E c \in Slots : Forget(c)
  \/ \E c \in Slots : ReqSuccess(c)
  \/ \E c \in Slots : ReqError(c)
  \/ \E c \in Slots : TxAbort(c)
  \/ \E c \in Slots : TxComplete(c)
  \/ Reload

Spec == Init /\ [][Next]_vars

(***************************************************************************)
(* An open database, from which the specifications below start.            *)
(***************************************************************************)
\* The database init() leaves when it finds none.
OpenDatabase == upgradeAll(NoStores, Declared(FALSE, <<>>), 1).stores

\* An open Database Handle with every declared store registered, no call made.
Opened(stores) ==
  /\ options = Declared(FALSE, <<>>)
  /\ version = 1
  /\ phase = "open"
  /\ initPromise = "resolved"
  /\ registered = [s \in StoreNames |-> TRUE]
  /\ dbVersion = 1
  /\ dbStores = stores
  /\ upgradeSnap = NoSnap
  /\ upgradeThrew = FALSE
  /\ otherConn = FALSE
  /\ txOrder = <<>>
  /\ kv = [s \in StoreNames |-> stores[s].records]
  /\ mapOnly = [s \in StoreNames |-> TRUE]

(***************************************************************************)
(* The cursor walk of each iteration of the store class, on an open        *)
(* database.  In the two earlier iterations this.store is                  *)
(* promisedIDB.then(db => callback(...)): a promise that takes the outcome *)
(* of what the method's callback returns.                                  *)
(***************************************************************************)
\* What settles the promise cursor() returns: the transaction in the first
\* iteration (the callback returns promisify(store.transaction)), nothing in the
\* second (the callback returns nothing), the walk's own promise in the latest.
CursorBridgeOf(iteration) ==
  CASE iteration = Iterations[1] -> "transaction"
    [] iteration = Iterations[2] -> "none"
    [] OTHER -> "walk"

\* The first iteration's cursor takes no range: store.openCursor().
WalkArgsOf(iteration, s) ==
  {a \in ArgsOf(s) :
     /\ a.op \in {"cursor", "getAll"}
     /\ iteration = Iterations[1] => a.args.range = NoRange}

\* cursor() / getAll() of an iteration, from the opening of the transaction to
\* the return of the method's callback: a callback that returns nothing
\* resolves the promise there and then, getAll's with the items pushed so far.
OpenAs(iteration, op, name, args, stores) ==
  LET opened == [Open(op, name, args, stores) EXCEPT
                   !.iteration = iteration, !.bridge = CursorBridgeOf(iteration)]
  IN  IF CursorBridgeOf(iteration) = "none"
      THEN Resolve(opened, WalkResult(opened))
      ELSE opened

WalkCall(c, iteration, name, op, args) ==
  /\ calls[c] = Idle
  /\ calls' = [calls EXCEPT ![c] = OpenAs(iteration, op, name, args, dbStores)]
  /\ txOrder' = Append(txOrder, c)
  /\ UNCHANGED <<lifecycle, dbStores, kv, mapOnly>>

\* The stores of OpenDatabase with two users in them.
PopulatedDatabase ==
  [OpenDatabase EXCEPT !["users"].records =
     [k \in 1..2 |-> IF k = 1 THEN [id |-> 1, email |-> 2] ELSE [id |-> 2, email |-> 1]]]

InitIterations ==
  /\ \E stores \in {OpenDatabase, PopulatedDatabase} : Opened(stores)
  /\ calls = [c \in 1..MaxInflight |-> Idle]

NextIterations ==
  \/ \E c \in Slots, i \in 1..Len(Iterations), name \in StoreNames :
       \E a \in WalkArgsOf(Iterations[i], name) :
         WalkCall(c, Iterations[i], name, a.op, a.args)
  \/ \E c \in Slots : Forget(c)
  \/ \E c \in Slots : ReqSuccess(c)
  \/ \E c \in Slots : ReqError(c)
  \/ \E c \in Slots : TxAbort(c)
  \/ \E c \in Slots : TxComplete(c)

SpecIterations == InitIterations /\ [][NextIterations]_vars

(***************************************************************************)
(* Calls made without awaiting: several calls in flight on an open         *)
(* database, the slots taken in call order.                                *)
(***************************************************************************)
InitConcurrent ==
  /\ Opened(OpenDatabase)
  /\ calls = [c \in 1..MaxConcurrent |-> Idle]

\* The application calls set or get on the users store while its earlier
\* calls are still in flight.
ConcurrentCall(c, op, args) ==
  /\ op \in {"set", "get"}
  /\ IF c = 1 THEN TRUE ELSE calls[c - 1] # Idle
  /\ Call(c, "users", op, args)

\* The application has seen the outcome of every call it made.
ForgetAll ==
  /\ \E c \in Slots : calls[c] # Idle
  /\ \A c \in Slots : calls[c] # Idle => calls[c].tx # "active"
  /\ calls' = [c \in Slots |-> Idle]
  /\ UNCHANGED <<lifecycle, dbStores, txOrder, kv, mapOnly>>

NextConcurrent ==
  \/ \E c \in Slots : \E a \in ArgsOf("users") : ConcurrentCall(c, a.op, a.args)
  \/ ForgetAll
  \/ \E c \in Slots : ReqSuccess(c)
  \/ \E c \in Slots : ReqError(c)
  \/ \E c \in Slots : TxAbort(c)
  \/ \E c \in Slots : TxComplete(c)

SpecConcurrent == InitConcurrent /\ [][NextConcurrent]_vars

(***************************************************************************)
(* The promise bridge on its own: a handle promisify was given, and the    *)
(* completion signals an engine may deliver on it, in any order and number.*)
(***************************************************************************)
\* A completion signal: the event, and request.result / request.error as the
\* handle holds them when the event is dispatched.
BridgeSignals ==
  {[signal |-> s, result |-> v, error |-> NoError] :
     s \in {"success", "complete"}, v \in {Undefined} \cup ValuesOf("users")}
  \cup {[signal |-> s, result |-> Undefined, error |-> e] :
          s \in {"error", "abort"},
          e \in {EngineError("ConstraintError"), EngineError("AbortError"),
                  EngineError("UnknownError")}}

\* The handles promisify is given: the request of a get or getByIndex, the
\* transaction of a write.
InitBridge ==
  /\ Opened(OpenDatabase)
  /\ \E name \in StoreNames : \E a \in ArgsOf(name) :
       /\ BridgeOf(a.op) \in {"request", "transaction"}
       /\ Open(a.op, name, a.args, OpenDatabase).promise = "pending"
       /\ calls = [c \in 1..1 |-> Open(a.op, name, a.args, OpenDatabase)]

Signal(c, s) ==
  /\ calls' = [calls EXCEPT ![c] = promisify(calls[c], s.signal, s.result, s.error)]
  /\ UNCHANGED <<lifecycle, dbStores, txOrder, kv, mapOnly>>

NextBridge == \E c \in Slots, s \in BridgeSignals : Signal(c, s)

SpecBridge == InitBridge /\ [][NextBridge]_vars

(***************************************************************************)
(* The claims.                                                             *)
(***************************************************************************)
Busy(c) == calls[c] # Idle
Began(c) == Busy(c)' /\ (~Busy(c) \/ calls[c].promise = "pending")
Resolving(c) == Began(c) /\ calls[c]'.promise = "resolved"

RECURSIVE PutAll(_, _, _)
PutAll(records, store, values) ==
  IF values = <<>> THEN records
  ELSE PutAll(PutRecord(records, PutKey(store, Head(values), NoKey), Head(values)),
              store, Tail(values))

RecordsBefore(c) ==
  IF calls[c].snapshot.taken THEN calls[c].snapshot.records
  ELSE dbStores[calls[c].store].records

\* C2: setMany is all-or-nothing: once its transaction is over, the store holds
\* either what it held before the call or that with every value of the batch put.
C2_SetManyAllOrNothing ==
  \A c \in Slots :
    Busy(c) /\ calls[c].op = "setMany" /\ calls[c].tx \in {"complete", "aborted"} =>
      \/ dbStores[calls[c].store].records = RecordsBefore(c)
      \/ dbStores[calls[c].store].records
           = PutAll(RecordsBefore(c), dbStores[calls[c].store], calls[c].args.values)

\* C3: a Store Handle method called before init() has resolved fails with the
\* not-initialized error that names the store, opens no transaction and changes
\* nothing in the database.
C3_NotInitializedBeforeInit ==
  [][\A c \in Slots :
       ~Busy(c) /\ Busy(c)' /\ initPromise # "resolved" =>
         /\ calls[c]'.promise \in {"thrown", "rejected"}
         /\ calls[c]'.err.name = "NotInitialized"
         /\ calls[c]'.err.label \in {"IDBStore", "IDBStoreIndex"}
         /\ calls[c]'.err.store = calls[c]'.store
         /\ calls[c]'.tx = "none"
         /\ txOrder' = txOrder
         /\ dbStores' = dbStores
         /\ dbVersion' = dbVersion]_vars

C3_Witness ==
  \E c \in Slots :
    /\ Busy(c)
    /\ phase = "upgrading"
    /\ calls[c].op = "cursorIndex"
    /\ calls[c].store = "logs"
    /\ calls[c].err = [name |-> "NotInitialized", label |-> "IDBStoreIndex",
                       store |-> "logs"]

\* C4: when the transaction of a mutating call aborts, the call's promise is
\* rejected and is never resolved, also when requests of the transaction had
\* succeeded, and the store holds what it held before the call.
C4_AbortRejectsAndRollsBack ==
  [][\A c \in Slots :
       Busy(c) /\ calls[c].op \in WriteOps =>
         /\ calls[c].tx = "active" /\ calls[c]'.tx = "aborted" =>
              /\ calls[c].promise = "pending" => calls[c]'.promise = "rejected"
              /\ calls[c]'.promise # "resolved"
              /\ dbStores'[calls[c].store].records = RecordsBefore(c)
         /\ calls[c].tx = "aborted" /\ Busy(c)' => calls[c]'.promise # "resolved"]_vars

C4_Witness ==
  \E c \in Slots :
    /\ Busy(c)
    /\ calls[c].op = "setMany"
    /\ calls[c].tx = "aborted"
    /\ calls[c].promise = "rejected"
    /\ calls[c].snapshot.taken
    /\ calls[c].snapshot.records = dbStores[calls[c].store].records
    /\ calls[c].snapshot.records # NoRecords

\* C5: a declared store that does not exist when the upgrade runs is created
\* with the key path its descriptor declares.
C5_CreatedWithDeclaredKeyPath ==
  [][\A s \in StoreNames :
       s \notin DOMAIN dbStores /\ s \in DOMAIN dbStores' =>
         dbStores'[s].keyPath = options[s].keyPath]_vars

C5_Witness ==
  /\ phase = "open"
  /\ "users" \in DOMAIN dbStores
  /\ dbStores["users"].keyPath # options["users"].keyPath

\* No read-write transaction is at work on the store.
Quiet(s) ==
  \A c \in Slots :
    ~(Busy(c) /\ calls[c].store = s /\ calls[c].tx = "active"
        /\ calls[c].mode = "readwrite")

RECURSIVE Ascending(_)
Ascending(entries) ==
  IF entries = {} THEN <<>>
  ELSE LET least == CHOOSE e \in entries : \A f \in entries : ~Before(f, e)
       IN  <<least>> \o Ascending(entries \ {least})

ValuesInKeyOrder(records) ==
  LET keys == Ascending({<<k, k>> : k \in DOMAIN records})
  IN  [i \in 1..Len(keys) |-> records[keys[i][2]]]

\* C6: under awaited get/set/del/clear/getAll calls a registered store is a
\* key/value map: get(k) resolves to the value of the last resolved set at k
\* that no del(k) or clear() followed, to undefined otherwise; the records are
\* those of that map whenever no write is under way (so del of an absent key
\* changes nothing), and getAll() resolves to the map's values, none after clear().
C6_KeyValueMap ==
  [][/\ \A s \in DOMAIN dbStores' :
          mapOnly'[s] /\ Quiet(s)' => dbStores'[s].records = kv'[s]
     /\ \A c \in Slots :
          Resolving(c) /\ mapOnly[calls[c]'.store] =>
            /\ calls[c]'.op = "get" =>
                 calls[c]'.result = Lookup(kv[calls[c]'.store], calls[c]'.args.key)
            /\ calls[c]'.op = "getAll" /\ calls[c]'.args.range = NoRange =>
                 calls[c]'.result = ValuesInKeyOrder(kv[calls[c]'.store])
            /\ calls[c]'.op = "del" =>
                 dbStores'[calls[c]'.store].records
                   = DeleteRecord(kv[calls[c]'.store], calls[c]'.args.key)
            /\ calls[c]'.op = "clear" =>
                 dbStores'[calls[c]'.store].records = NoRecords]_vars

C6_Witness ==
  \E c \in Slots :
    /\ Busy(c)
    /\ calls[c].op = "get"
    /\ calls[c].store = "logs"
    /\ calls[c].promise = "resolved"
    /\ calls[c].result = [id |-> 1, email |-> 0]
    /\ mapOnly["logs"]

\* C7: when the open fails or is blocked, init() is rejected (not left pending)
\* and no declared store is registered.
C7_OpenFailureRejectsInit ==
  phase \in {"blocked", "failed"} =>
    /\ initPromise = "rejected"
    /\ \A s \in StoreNames : ~registered[s]

\* C8: migration is idempotent: once upgrade() has run for every declared store
\* without error, running it for every declared store again raises no error and
\* leaves the stores and their indexes as the first run left them.
C8_MigrationIdempotent ==
  phase = "upgrading" /\ ~upgradeThrew =>
    LET again == upgradeAll(dbStores, options, 1)
    IN  ~again.threw /\ again.stores = dbStores

C8_Witness ==
  /\ phase = "upgrading"
  /\ ~upgradeThrew
  /\ "users" \in DOMAIN upgradeSnap.stores
  /\ "logs" \notin DOMAIN upgradeSnap.stores
  /\ DOMAIN dbStores["users"].indexes # DOMAIN upgradeSnap.stores["users"].indexes

\* C9: getMany(keys) reads in one read-only transaction and resolves to a
\* sequence as long as keys whose i-th element is the record stored at keys[i],
\* or undefined when there is none, duplicates included.
C9_GetManyInKeyOrder ==
  [][\A c \in Slots :
       Resolving(c) /\ calls[c]'.op = "getMany" =>
         /\ calls[c]'.mode = "readonly"
         /\ calls[c]'.tx = "active"
         /\ Len(calls[c]'.result) = Len(calls[c]'.args.keys)
         /\ \A i \in 1..Len(calls[c]'.args.keys) :
              calls[c]'.result[i]
                = Lookup(dbStores[calls[c]'.store].records, calls[c]'.args.keys[i])]_vars

C9_Witness ==
  \E c \in Slots :
    /\ Busy(c)
    /\ calls[c].op = "getMany"
    /\ calls[c].promise = "resolved"
    /\ calls[c].args.keys = <<2, 1>>
    /\ calls[c].result[1] = Undefined
    /\ calls[c].result[2] # Undefined

\* The records a walk must visit, in order: those whose primary key (cursor,
\* getAll) or index key (cursorIndex, getAllByIndex) lies in the range.
Expected(store, call) ==
  LET inRange == {e \in Entries(store, call) : InRange(e[1], call.args.range)}
      order == Ascending(inRange)
  IN  [i \in 1..Len(order) |-> [key |-> order[i][2], value |-> store.records[order[i][2]]]]

IsPrefix(p, q) == Len(p) <= Len(q) /\ \A i \in 1..Len(p) : p[i] = q[i]

Schema(stores) ==
  [s \in DOMAIN stores |-> [keyPath |-> stores[s].keyPath, indexes |-> stores[s].indexes]]

\* Every declared store and every declared index exists.
DeclaredExist(stores) ==
  \A s \in StoreNames :
    /\ s \in DOMAIN stores
    /\ \A i \in 1..Len(options[s].indexes) :
         options[s].indexes[i].name \in DOMAIN stores[s].indexes

PhaseOrder ==
  {<<"uninitialized", "opening">>, <<"opening", "blocked">>,
   <<"opening", "upgrading">>, <<"blocked", "upgrading">>,
   <<"opening", "opened">>, <<"upgrading", "opened">>, <<"opened", "open">>,
   <<"opening", "failed">>, <<"upgrading", "failed">>,
   <<"open", "uninitialized">>, <<"failed", "uninitialized">>}

\* C12: init() goes uninitialized -> opening -> (upgrading) -> open: the stores
\* and indexes of the database change only on the engine's upgrade-needed
\* signal (or when that upgrade is rolled back), the upgrade has run for every
\* declared store when the open request succeeds after it, and a store is
\* registered only after the open request has succeeded, never before or during
\* the upgrade.
C12_LifecycleOrder ==
  [][/\ phase' # phase => <<phase, phase'>> \in PhaseOrder
     /\ Schema(dbStores') # Schema(dbStores) =>
          \/ phase \in {"opening", "blocked"} /\ phase' = "upgrading"
               /\ version > dbVersion
          \/ phase = "upgrading" /\ phase' = "failed"
     /\ phase = "upgrading" /\ phase' = "opened" =>
          DeclaredExist(dbStores') /\ dbVersion' = version
     /\ (\E s \in StoreNames : registered'[s] /\ ~registered[s]) =>
          phase = "opened" /\ phase' = "open"
     /\ (\E s \in StoreNames : registered'[s]) => phase' = "open"]_vars

C12_Witness ==
  /\ phase = "open"
  /\ \A s \in StoreNames : registered[s]
  /\ dbVersion = MaxVersion
  /\ DeclaredExist(dbStores)
  /\ dbStores["users"].keyPath = "id"

\* A migration step failed: a create call threw in the upgradeneeded handler, or
\* the engine cannot build an index that was created.
MigrationFailed ==
  upgradeThrew \/ \E s \in DOMAIN dbStores : IndexBuildFails(dbStores[s])

\* C13: when a store's migration step fails during the upgrade (createIndex
\* throws, or an index cannot be built), the open is aborted: the open request
\* does not succeed, init() rejects, no declared store is registered, also not
\* one whose own step had succeeded, and the database has the stores, indexes,
\* records and version it had before init() was called.
C13_FailedMigrationAbortsOpen ==
  [][phase = "upgrading" /\ MigrationFailed /\ phase' # phase =>
       /\ phase' = "failed"
       /\ initPromise' = "rejected"
       /\ \A s \in StoreNames : ~registered'[s]
       /\ dbStores' = upgradeSnap.stores
       /\ dbVersion' = upgradeSnap.version
       /\ dbVersion' < version]_vars

C13_Witness ==
  /\ phase = "failed"
  /\ initPromise = "rejected"
  /\ upgradeThrew
  /\ Len(options["logs"].indexes) = 1
  /\ dbStores = NoStores
  /\ dbVersion = 0
  /\ \A s \in StoreNames : ~registered[s]

\* C14: migration only adds: after an upgrade that completed, every store the
\* database had is still there with the key path and the records it had, every
\* index such a store had is still there as it was, and every declared store
\* and every declared index exists.
C14_MigrationOnlyAdds ==
  phase = "upgrading" /\ ~MigrationFailed =>
    /\ DOMAIN upgradeSnap.stores \subseteq DOMAIN dbStores
    /\ \A s \in DOMAIN upgradeSnap.stores :
         /\ DOMAIN upgradeSnap.stores[s].indexes \subseteq DOMAIN dbStores[s].indexes
         /\ \A n \in DOMAIN upgradeSnap.stores[s].indexes :
              dbStores[s].indexes[n] = upgradeSnap.stores[s].indexes[n]
         /\ dbStores[s].keyPath = upgradeSnap.stores[s].keyPath
         /\ dbStores[s].records = upgradeSnap.stores[s].records
    /\ DeclaredExist(dbStores)

C14_Witness ==
  /\ phase = "upgrading"
  /\ ~MigrationFailed
  /\ DOMAIN upgradeSnap.stores = {"users"}
  /\ upgradeSnap.stores["users"].records # NoRecords
  /\ DOMAIN dbStores = StoreNames
  /\ DOMAIN upgradeSnap.stores["users"].indexes = {}
  /\ DOMAIN dbStores["users"].indexes = {"byEmail"}

(***************************************************************************)
(* The claims about failures of a call (under Spec).                       *)
(***************************************************************************)
\* C15: when the step request of a cursor() or cursorIndex() walk reports an
\* error, the walk's promise is rejected, the records visited so far are a
\* prefix of the records in range in order, and the visitor is called for no
\* further record.
C15_StepErrorRejectsWalk ==
  [][\A c \in Slots :
       Busy(c) /\ Busy(c)' /\ calls[c].op \in {"cursor", "cursorIndex"} =>
         /\ calls[c].tx = "active" /\ calls[c]'.tx = "aborted"
              /\ Len(calls[c].reqs) > 0 /\ calls[c]'.visited = calls[c].visited =>
              /\ calls[c].promise = "pending"
              /\ calls[c]'.promise = "rejected"
              /\ IsPrefix(calls[c]'.visited, Expected(dbStores[calls[c].store], calls[c]))
         /\ calls[c].tx = "aborted" =>
              /\ calls[c]'.visited = calls[c].visited
              /\ calls[c]'.promise = calls[c].promise]_vars

C15_Witness ==
  \E c \in Slots :
    /\ Busy(c)
    /\ calls[c].op = "cursor"
    /\ calls[c].args.visitor = "returns"
    /\ calls[c].tx = "aborted"
    /\ calls[c].promise = "rejected"
    /\ Len(calls[c].visited) = 1
    /\ Len(Expected(dbStores[calls[c].store], calls[c])) = 2

\* C16: no call hangs and every failure is a rejection: once the engine has
\* completed or aborted the transaction of a call, the call's promise is settled
\* (or the call threw), and it is rejected when the transaction aborted before
\* the promise was resolved.
C16_SettledWhenTransactionOver ==
  \A c \in Slots :
    Busy(c) /\ calls[c].tx \in {"complete", "aborted"} =>
      calls[c].promise # "pending"

C16_Witness ==
  \E c \in Slots :
    /\ Busy(c)
    /\ calls[c].op = "cursor"
    /\ calls[c].args.visitor = "throws"
    /\ calls[c].tx = "aborted"
    /\ calls[c].promise = "pending"
    /\ Len(calls[c].visited) = 1

\* C17: the value a call's promise is rejected with, when an operation of the
\* call reported an error, is that operation's error: never null, never an
\* event object.
C17_RejectedWithUnderlyingError ==
  \A c \in Slots :
    Busy(c) /\ calls[c].promise = "rejected" =>
      calls[c].err.name \notin {"null", "Event"}

C17_Witness ==
  \E c \in Slots :
    /\ Busy(c)
    /\ calls[c].op = "set"
    /\ calls[c].promise = "rejected"
    /\ calls[c].err = TxErrorDuringEvent

(***************************************************************************)
(* The claims about calls and registration (under Spec).                   *)
(***************************************************************************)
AllOrNone(reg) ==
  (\A s \in StoreNames : reg[s]) \/ (\A s \in StoreNames : ~reg[s])

\* C19: registration is all-or-none: in every state application code runs in,
\* either no declared store is registered or all are; all are once init() has
\* resolved, and no method called then fails with the not-initialized error.
C19_RegistrationAllOrNone ==
  [][/\ AllOrNone(registered) /\ AllOrNone(registered')
     /\ initPromise' = "resolved" => \A s \in StoreNames : registered'[s]
     /\ \A c \in Slots :
          ~Busy(c) /\ Busy(c)' /\ initPromise = "resolved" =>
            calls[c]'.err.name # "NotInitialized"]_vars

C19_Witness ==
  \E c \in Slots :
    /\ Busy(c)
    /\ initPromise = "resolved"
    /\ calls[c].store = StoreOrder[Len(StoreOrder)]
    /\ calls[c].op = "clear"
    /\ calls[c].promise = "resolved"
    /\ \A s \in StoreNames : registered[s]

(***************************************************************************)
(* The claim about calls in flight together (under SpecConcurrent).        *)
(***************************************************************************)
\* The call in slot c is a set that made its put, at this key.
WroteAt(c) ==
  PutKey(dbStores[calls[c].store], calls[c].args.value, calls[c].args.key)

IsSet(c) ==
  Busy(c) /\ calls[c].op = "set" /\ calls[c].err = NoError /\ calls[c].tx # "aborted"

\* C20: calls made without awaiting open their transactions in call order, and
\* a call made after a set on the same store sees the set, whatever the order
\* of the engine's events, unless a transaction aborts: while both transactions
\* are live the set's is the older; a later get of the key resolves only after
\* the set's transaction completed, and to the set's value; of two sets at one
\* key the later value is the one left.
C20_LaterCallSeesEarlierWrite ==
  \A c \in Slots : c + 1 \in Slots /\ IsSet(c) /\ Busy(c + 1) =>
    LET d == c + 1 IN
    /\ calls[c].tx = "active" /\ calls[d].tx = "active" => PlaceOf(c) < PlaceOf(d)
    /\ calls[d].op = "get" /\ calls[d].args.key = WroteAt(c)
         /\ calls[d].promise = "resolved" =>
         /\ calls[c].tx = "complete"
         /\ calls[d].result = calls[c].args.value
    /\ IsSet(d) /\ WroteAt(d) = WroteAt(c)
         /\ calls[c].tx = "complete" /\ calls[d].tx = "complete"
         /\ (\A e \in Slots : e > d /\ Busy(e) => calls[e].mode = "readonly") =>
         Lookup(dbStores[calls[c].store].records, WroteAt(c)) = calls[d].args.value

C20_Witness ==
  /\ IsSet(1)
  /\ Busy(2)
  /\ calls[1].tx = "complete"
  /\ calls[2].op = "get"
  /\ calls[2].args.key = WroteAt(1)
  /\ calls[2].promise = "resolved"
  /\ calls[2].tx = "active"
  /\ calls[2].result = [id |-> 2, email |-> 1]

(***************************************************************************)
(* The claim about the iterations of the walk (under SpecIterations).      *)
(***************************************************************************)
\* C18: in every iteration, the promise cursor() and getAll() return is
\* resolved only once the walk has met the step without a current record: no
\* step is pending, every record in range was visited, and getAll's sequence
\* holds an item for each.
C18_WalkResolvesAtEnd ==
  \A c \in Slots :
    Busy(c) /\ calls[c].op \in {"cursor", "getAll"} /\ calls[c].promise = "resolved" =>
      /\ calls[c].reqs = <<>>
      /\ calls[c].visited = Expected(dbStores[calls[c].store], calls[c])
      /\ calls[c].op = "getAll" => Len(calls[c].result) = Len(calls[c].visited)

C18_Witness ==
  \E c \in Slots :
    /\ Busy(c)
    /\ calls[c].op = "getAll"
    /\ calls[c].iteration = Iterations[2]
    /\ calls[c].promise = "resolved"
    /\ calls[c].tx = "active"
    /\ calls[c].visited = <<>>
    /\ calls[c].result = <<>>
    /\ Len(Expected(dbStores[calls[c].store], calls[c])) = 2

(***************************************************************************)
(* The claims about the promise bridge (under SpecBridge).                 *)
(***************************************************************************)
SignalSeqs == SeqsUpTo(BridgeSignals, MaxSignals)

RECURSIVE Deliver(_, _)
Deliver(call, signals) ==
  IF signals = <<>> THEN call
  ELSE Deliver(promisify(call, Head(signals).signal, Head(signals).result,
                         Head(signals).error),
               Tail(signals))

\* C11: promisify settles exactly once: whatever signals are delivered on a
\* handle, in whatever order and number, a pending promise ends with the outcome
\* of the first of them (resolved with its result on success or complete,
\* rejected with its error on error or abort), and a settled promise keeps its
\* state and its value.
C11_SettlesOnce ==
  \A c \in Slots : \A signals \in SignalSeqs :
    LET end == Deliver(calls[c], signals) IN
    IF calls[c].promise # "pending" THEN end = calls[c]
    ELSE signals # <<>> =>
           IF Head(signals).signal \in {"success", "complete"}
           THEN /\ end.promise = "resolved"
                /\ end.result = Head(signals).result
                /\ end.err = NoError
           ELSE /\ end.promise = "rejected"
                /\ end.err = Head(signals).error
                /\ end.result = Undefined

C11_Witness ==
  \E c \in Slots :
    /\ calls[c].bridge = "transaction"
    /\ calls[c].promise = "rejected"
    /\ calls[c].err = EngineError("ConstraintError")
    /\ txOrder = <<>>

====
